---- MODULE Spec2Model ----
(***************************************************************************)
(* Hyperliquid MCP server (src/src/index.ts): eight tools registered on an *)
(* McpServer, each of which validates its arguments against a zod schema,  *)
(* builds one request body, POSTs it to /info through one axios instance   *)
(* and turns the settled call into a tool result.                          *)
(***************************************************************************)
EXTENDS Integers, Sequences, FiniteSets, TLC

VARIABLES proc, exitCode, pc, call, posts, settled, result

vars == <<proc, exitCode, pc, call, posts, settled, result>>

(***************************************************************************)
(* JavaScript / JSON values.  A value carries its typeof tag so that the   *)
(* schema's type checks, JavaScript truthiness and JSON.stringify can be   *)
(* computed from it.  An absent (undefined) property is a key that is not  *)
(* in the DOMAIN of the object.                                            *)
(***************************************************************************)
Str(s) == [t |-> "string", v |-> s]
Num(n) == [t |-> "number", v |-> n]
Obj(f) == [t |-> "object", v |-> f]
Null == [t |-> "null", v |-> "null"]
Nothing == [t |-> "undefined", v |-> "undefined"]

Has(o, k) == k \in DOMAIN o

\* ToBoolean of a value: "", 0 and null are falsy.
Truthy(x) ==
    CASE x.t = "string" -> x.v # ""
      [] x.t = "number" -> x.v # 0
      [] x.t = "object" -> TRUE
      [] OTHER -> FALSE

\* String(x), as a template literal `${x}` converts a value.
ToJsString(x) ==
    CASE x.t = "string" -> x.v
      [] x.t = "number" -> ToString(x.v)
      [] x.t = "object" -> "[object Object]"
      [] OTHER -> x.v

MathMin(a, b) == IF a < b THEN a ELSE b

(***************************************************************************)
(* JSON.stringify(data, null, 2) for the values that occur: primitives and *)
(* flat objects of primitives.  Properties come out in insertion order;    *)
(* KeyOrder is the order in which every handler inserts them.              *)
(***************************************************************************)
KeyOrder ==
    <<"type", "user", "coin", "interval", "n", "limit", "startTime", "endTime", "error">>

JSONprimitive(x) ==
    CASE x.t = "string" -> "\"" \o x.v \o "\""
      [] x.t = "number" -> ToString(x.v)
      [] OTHER -> "null"

RECURSIVE JSONmembers(_, _)
JSONmembers(o, ks) ==
    IF ks = <<>> THEN ""
    ELSE "  \"" \o Head(ks) \o "\": " \o JSONprimitive(o[Head(ks)])
         \o (IF Tail(ks) = <<>> THEN "\n" ELSE ",\n")
         \o JSONmembers(o, Tail(ks))

JSONstringify(x) ==
    IF x.t = "object"
    THEN LET ks == SelectSeq(KeyOrder, LAMBDA k : k \in DOMAIN x.v)
         IN IF ks = <<>> THEN "{}" ELSE "{\n" \o JSONmembers(x.v, ks) \o "}"
    ELSE JSONprimitive(x)

(***************************************************************************)
(* The tool schemas (zod).  McpServer parses the arguments of a tools/call *)
(* against z.object(schema) before it invokes the handler; a handler runs  *)
(* only on arguments its schema accepts.                                   *)
(***************************************************************************)
N_MIN == 1
N_MAX == 1000
N_DEFAULT == 100
N_CLAMP == 1000
LIMIT_MIN == 1
LIMIT_MAX == 5000
LIMIT_DEFAULT == 500
LIMIT_CLAMP == 5000
TIMEOUT_MS == 30000

Intervals == {"1m", "5m", "15m", "1h", "4h", "1d"}

\* z.string()
ZString(a, k) == Has(a, k) /\ a[k].t = "string"

\* z.string().optional()
ZStringOptional(a, k) == Has(a, k) => a[k].t = "string"

\* z.number().optional()
ZNumberOptional(a, k) == Has(a, k) => a[k].t = "number"

\* z.number().min(lo).max(hi).optional()
ZNumberRangeOptional(a, k, lo, hi) ==
    Has(a, k) => (a[k].t = "number" /\ a[k].v >= lo /\ a[k].v <= hi)

\* z.enum(values)
ZEnum(a, k, values) == Has(a, k) /\ a[k].t = "string" /\ a[k].v \in values

get_all_mids_schema(a) == TRUE

get_user_state_schema(a) == ZString(a, "user_address")

\* Mutants: the schema of get_recent_trades without its .max(1000), and
\* without its .min(1).
get_recent_trades_schema_nomax(a) ==
    /\ ZString(a, "coin")
    /\ Has(a, "n") => (a.n.t = "number" /\ a.n.v >= N_MIN)

get_recent_trades_schema_nomin(a) ==
    /\ ZString(a, "coin")
    /\ Has(a, "n") => (a.n.t = "number" /\ a.n.v <= N_MAX)

get_recent_trades_schema(a) ==
    /\ ZString(a, "coin")
    /\ ZNumberRangeOptional(a, "n", N_MIN, N_MAX)

get_l2_snapshot_schema(a) == ZString(a, "coin")

\* Mutant: interval declared z.string() instead of z.enum([...]).
get_candles_schema_anyinterval(a) ==
    /\ ZString(a, "coin")
    /\ ZString(a, "interval")
    /\ ZNumberOptional(a, "start_time")
    /\ ZNumberOptional(a, "end_time")
    /\ ZNumberRangeOptional(a, "limit", LIMIT_MIN, LIMIT_MAX)

get_candles_schema(a) ==
    /\ ZString(a, "coin")
    /\ ZEnum(a, "interval", Intervals)
    /\ ZNumberOptional(a, "start_time")
    /\ ZNumberOptional(a, "end_time")
    /\ ZNumberRangeOptional(a, "limit", LIMIT_MIN, LIMIT_MAX)

get_meta_schema(a) == TRUE

get_funding_rates_schema(a) == ZStringOptional(a, "coin")

get_open_interest_schema(a) == ZStringOptional(a, "coin")

ToolNames ==
    {"get_all_mids", "get_user_state", "get_recent_trades", "get_l2_snapshot",
     "get_candles", "get_meta", "get_funding_rates", "get_open_interest"}

\* Whether the schema registered for tool `name` accepts the arguments a.
SchemaAccepts(name, a) ==
    CASE name = "get_all_mids" -> get_all_mids_schema(a)
      [] name = "get_user_state" -> get_user_state_schema(a)
      [] name = "get_recent_trades" -> get_recent_trades_schema(a)
      [] name = "get_l2_snapshot" -> get_l2_snapshot_schema(a)
      [] name = "get_candles" -> get_candles_schema(a)
      [] name = "get_meta" -> get_meta_schema(a)
      [] name = "get_funding_rates" -> get_funding_rates_schema(a)
      [] name = "get_open_interest" -> get_open_interest_schema(a)

(***************************************************************************)
(* The request body each handler builds from its (already parsed)          *)
(* arguments, up to its call of makeHyperliquidRequest('/info', body).     *)
(***************************************************************************)
get_all_mids_request(a) == [type |-> Str("allMids")]

get_user_state_request(a) == [type |-> Str("userState"), user |-> a.user_address]

\* Mutant: n is not defaulted to 100 but to the cap.
get_recent_trades_request_nodefault(a) ==
    LET n == IF Has(a, "n") THEN a.n.v ELSE N_CLAMP
    IN [type |-> Str("trades"), coin |-> a.coin, n |-> Num(MathMin(n, N_CLAMP))]

get_recent_trades_request(a) ==
    LET n == IF Has(a, "n") THEN a.n.v ELSE N_DEFAULT
    IN [type |-> Str("trades"), coin |-> a.coin, n |-> Num(MathMin(n, N_CLAMP))]

get_l2_snapshot_request(a) == [type |-> Str("l2Book"), coin |-> a.coin]

get_candles_request(a) ==
    LET limit == IF Has(a, "limit") THEN a.limit.v ELSE LIMIT_DEFAULT
        requestData ==
            [type |-> Str("candles"), coin |-> a.coin, interval |-> a.interval,
             limit |-> Num(MathMin(limit, LIMIT_CLAMP))]
        startTime ==
            IF Has(a, "start_time") /\ Truthy(a.start_time)
            THEN [startTime |-> a.start_time] ELSE <<>>
        endTime ==
            IF Has(a, "end_time") /\ Truthy(a.end_time)
            THEN [endTime |-> a.end_time] ELSE <<>>
    IN requestData @@ startTime @@ endTime

\* Mutant: the body carries a second property.
get_meta_request_extra(a) == [type |-> Str("meta"), coin |-> Str("")]

get_meta_request(a) == [type |-> Str("meta")]

\* Mutant: `coin` is copied whenever it is defined, "" included.
get_funding_rates_request_always(a) ==
    [type |-> Str("fundingRate")]
        @@ (IF Has(a, "coin") THEN [coin |-> a.coin] ELSE <<>>)

\* ...(coin && { coin }): spreading undefined or "" adds no property.
get_funding_rates_request(a) ==
    [type |-> Str("fundingRate")]
        @@ (IF Has(a, "coin") /\ Truthy(a.coin) THEN [coin |-> a.coin] ELSE <<>>)

get_open_interest_request(a) ==
    [type |-> Str("openInterest")]
        @@ (IF Has(a, "coin") /\ Truthy(a.coin) THEN [coin |-> a.coin] ELSE <<>>)

RequestData(name, a) ==
    CASE name = "get_all_mids" -> get_all_mids_request(a)
      [] name = "get_user_state" -> get_user_state_request(a)
      [] name = "get_recent_trades" -> get_recent_trades_request(a)
      [] name = "get_l2_snapshot" -> get_l2_snapshot_request(a)
      [] name = "get_candles" -> get_candles_request(a)
      [] name = "get_meta" -> get_meta_request(a)
      [] name = "get_funding_rates" -> get_funding_rates_request(a)
      [] name = "get_open_interest" -> get_open_interest_request(a)

(***************************************************************************)
(* hyperliquidApi.post(endpoint, data): the axios instance created with    *)
(* timeout 30000 and the default validateStatus.  The call settles in one  *)
(* of three ways: a response arrived (resolved when its status is 2xx,     *)
(* rejected with an AxiosError carrying the response otherwise), the       *)
(* transport failed, or the timeout fired (both rejected with an           *)
(* AxiosError that carries no response).                                   *)
(***************************************************************************)
AxiosError(message) == [isAxiosError |-> TRUE, isError |-> TRUE, message |-> message]

PostResponded(status, data) ==
    IF status >= 200 /\ status < 300
    THEN [ok |-> TRUE, response |-> [status |-> status, data |-> data]]
    ELSE [ok |-> FALSE,
          error |-> AxiosError("Request failed with status code " \o ToString(status))
                        @@ [response |-> [status |-> status, data |-> data]]]

PostFailed(message) == [ok |-> FALSE, error |-> AxiosError(message)]

PostTimedOut ==
    [ok |-> FALSE,
     error |-> AxiosError("timeout of " \o ToString(TIMEOUT_MS) \o "ms exceeded")]

\* Mutant: the body of the response is never consulted.
UpstreamErrorText_messageonly(error) == error.message

\* error.response?.data?.error || error.message
UpstreamErrorText(error) ==
    IF /\ Has(error, "response")
       /\ error.response.data.t = "object"
       /\ Has(error.response.data.v, "error")
       /\ Truthy(error.response.data.v.error)
    THEN ToJsString(error.response.data.v.error)
    ELSE error.message

\* Mutant: a 2xx body with a truthy `error` property is thrown as an error.
makeHyperliquidRequest_inspects(s) ==
    IF s.ok /\ ~(Has(s.response.data.v, "error") /\ Truthy(s.response.data.v.error))
    THEN [threw |-> FALSE, value |-> s.response.data]
    ELSE [threw |-> TRUE,
          error |-> [isError |-> TRUE,
                     message |-> "Hyperliquid API error: "
                                     \o (IF s.ok THEN ToJsString(s.response.data.v.error)
                                         ELSE UpstreamErrorText(s.error))]]

\* makeHyperliquidRequest, from the point where the awaited post has settled:
\* it returns response.data, or throws.
makeHyperliquidRequest(s) ==
    IF s.ok
    THEN [threw |-> FALSE, value |-> s.response.data]
    ELSE IF s.error.isAxiosError
         THEN [threw |-> TRUE,
               error |-> [isError |-> TRUE,
                          message |-> "Hyperliquid API error: "
                                          \o UpstreamErrorText(s.error)]]
         ELSE [threw |-> TRUE, error |-> s.error]

\* Mutant: the data is converted with String(data), not JSON.stringify.
HandlerReturn_String(r) ==
    IF ~r.threw
    THEN [content |-> <<[type |-> "text", text |-> ToJsString(r.value)]>>]
    ELSE [content |->
              <<[type |-> "text",
                 text |-> "Error: " \o (IF r.error.isError THEN r.error.message
                                        ELSE "Unknown error")]>>,
          isError |-> TRUE]

\* The rest of a tool handler after `await makeHyperliquidRequest(...)`: the
\* return in the try block, or the return in the catch block.  The eight
\* handlers share this text verbatim.
HandlerReturn(r) ==
    IF ~r.threw
    THEN [content |-> <<[type |-> "text", text |-> JSONstringify(r.value)]>>]
    ELSE [content |->
              <<[type |-> "text",
                 text |-> "Error: " \o (IF r.error.isError THEN r.error.message
                                        ELSE "Unknown error")]>>,
          isError |-> TRUE]

(***************************************************************************)
(* Inputs.  MaxInFlight bounds how many tool calls the server is handling  *)
(* at once; a slot is reused once its reply has been sent.                 *)
(***************************************************************************)
MaxInFlight == 1

Slots == 1 .. MaxInFlight

\* The objects with no property, and with the one property k drawn from vs.
Empty == <<>>

Prop(k, vs) == {[x \in {k} |-> v] : v \in vs}

Optional(k, vs) == {Empty} \cup Prop(k, vs)

Arguments(name) ==
    CASE name \in {"get_all_mids", "get_meta"} -> {Empty}
      [] name = "get_user_state" ->
            Optional("user_address", {Str("0xabc"), Num(7)})
      [] name = "get_l2_snapshot" -> Optional("coin", {Str("ZZZ"), Null})
      [] name \in {"get_funding_rates", "get_open_interest"} ->
            Optional("coin", {Str("BTC"), Str(""), Null})
      [] name = "get_recent_trades" ->
            {c @@ n : c \in Optional("coin", {Str("BTC")}),
                      n \in Optional("n", {Num(0), Num(1), Num(50), Num(1000),
                                           Num(1001), Num(5000), Str("50")})}
      [] name = "get_candles" ->
            {c @@ i @@ s @@ e @@ l :
                c \in Optional("coin", {Str("BTC")}),
                i \in Optional("interval", {Str("1h"), Str("2h")}),
                s \in Optional("start_time", {Num(0), Num(1700)}),
                e \in Optional("end_time", {Num(1800)}),
                l \in Optional("limit", {Num(0), Num(5000), Num(5001)})}

Statuses == {200, 500}

\* What a stub upstream answers to a request: the request body echoed back,
\* or an object with an error property.
Bodies(data) ==
    {Obj(data), Obj([error |-> Str("coin not found")]), Obj([error |-> Str("")])}

NetworkFailures == {"getaddrinfo ENOTFOUND api.hyperliquid.xyz"}

(***************************************************************************)
(* State.  proc is the process (main and its catch); per slot, pc is where *)
(* the call is, call the tools/call request, posts the requests the        *)
(* handler has handed to hyperliquidApi.post, settled how the post ended,  *)
(* result what the handler returned.                                       *)
(***************************************************************************)
Init ==
    /\ proc = "starting"
    /\ exitCode = Nothing
    /\ pc = [i \in Slots |-> "idle"]
    /\ call = [i \in Slots |-> Nothing]
    /\ posts = [i \in Slots |-> <<>>]
    /\ settled = [i \in Slots |-> Nothing]
    /\ result = [i \in Slots |-> Nothing]

\* main: server.connect(transport) resolves.
Connect ==
    /\ proc = "starting"
    /\ proc' = "running"
    /\ UNCHANGED <<exitCode, pc, call, posts, settled, result>>

\* main().catch: server.connect rejects; process.exit(1).
ConnectFail ==
    /\ proc = "starting"
    /\ proc' = "exited"
    /\ exitCode' = Num(1)
    /\ UNCHANGED <<pc, call, posts, settled, result>>

\* Mutant: the request body lives in one module-level variable; a handler
\* that starts while another call is awaiting its post sends that call's body.
CallTool_shared(i, name, a) ==
    /\ proc = "running"
    /\ pc[i] = "idle"
    /\ call' = [call EXCEPT ![i] = [name |-> name, arguments |-> a]]
    /\ IF SchemaAccepts(name, a)
       THEN /\ pc' = [pc EXCEPT ![i] = "awaiting"]
            /\ \E data \in IF \E j \in DOMAIN pc : pc[j] = "awaiting"
                            THEN {posts[j][1].data : j \in {k \in DOMAIN pc : pc[k] = "awaiting"}}
                            ELSE {RequestData(name, a)} :
                   posts' = [posts EXCEPT
                       ![i] = Append(@, [endpoint |-> "/info", data |-> data])]
       ELSE /\ pc' = [pc EXCEPT ![i] = "rejected"]
            /\ UNCHANGED posts
    /\ UNCHANGED <<proc, exitCode, settled, result>>

\* A tools/call request arrives.  The arguments are parsed against the
\* tool's schema; if they are refused the call ends with InvalidParams and
\* the handler never runs.  Otherwise the handler runs up to its await: it
\* builds the request body and hands it to hyperliquidApi.post.
CallTool(i, name, a) ==
    /\ proc = "running"
    /\ pc[i] = "idle"
    /\ call' = [call EXCEPT ![i] = [name |-> name, arguments |-> a]]
    /\ IF SchemaAccepts(name, a)
       THEN /\ pc' = [pc EXCEPT ![i] = "awaiting"]
            /\ posts' = [posts EXCEPT
                  ![i] = Append(@, [endpoint |-> "/info", data |-> RequestData(name, a)])]
       ELSE /\ pc' = [pc EXCEPT ![i] = "rejected"]
            /\ UNCHANGED posts
    /\ UNCHANGED <<proc, exitCode, settled, result>>

\* Mutant: a post that failed is repeated once before the handler gives up.
Settle_retry(i, s) ==
    IF ~s.ok /\ Len(posts[i]) < 2
    THEN /\ posts' = [posts EXCEPT ![i] = Append(@, @[1])]
         /\ UNCHANGED <<proc, exitCode, pc, call, settled, result>>
    ELSE /\ settled' = [settled EXCEPT ![i] = s]
         /\ result' = [result EXCEPT ![i] = HandlerReturn(makeHyperliquidRequest(s))]
         /\ pc' = [pc EXCEPT ![i] = "returned"]
         /\ UNCHANGED <<proc, exitCode, call, posts>>

\* Mutant: the handler has no try/catch; the error thrown by
\* makeHyperliquidRequest goes unhandled and ends the process.
Settle_crash(i, s) ==
    IF s.ok
    THEN /\ settled' = [settled EXCEPT ![i] = s]
         /\ result' = [result EXCEPT ![i] = HandlerReturn(makeHyperliquidRequest(s))]
         /\ pc' = [pc EXCEPT ![i] = "returned"]
         /\ UNCHANGED <<proc, exitCode, call, posts>>
    ELSE /\ settled' = [settled EXCEPT ![i] = s]
         /\ proc' = "exited"
         /\ exitCode' = Num(1)
         /\ UNCHANGED <<pc, call, posts, result>>

\* The awaited post has settled as s: makeHyperliquidRequest returns or
\* throws, and the handler runs to its return.
Settle(i, s) ==
    /\ settled' = [settled EXCEPT ![i] = s]
    /\ result' = [result EXCEPT ![i] = HandlerReturn(makeHyperliquidRequest(s))]
    /\ pc' = [pc EXCEPT ![i] = "returned"]
    /\ UNCHANGED <<proc, exitCode, call, posts>>

\* The upstream answers the request.
HttpResponse(i) ==
    /\ pc[i] = "awaiting"
    /\ \E status \in Statuses, data \in Bodies(posts[i][Len(posts[i])].data) :
           Settle(i, PostResponded(status, data))

\* The transport fails before any response arrives.
NetworkError(i) ==
    /\ pc[i] = "awaiting"
    /\ \E m \in NetworkFailures : Settle(i, PostFailed(m))

\* Mutant: the instance is created without `timeout` (axios' default 0: no
\* timeout), so the post never rejects on its own.
Timeout_never(i) ==
    /\ pc[i] = "awaiting"
    /\ FALSE
    /\ UNCHANGED vars

\* No response within the instance's timeout.
Timeout(i) ==
    /\ pc[i] = "awaiting"
    /\ Settle(i, PostTimedOut)

\* The reply has been written to the transport; the call is over.
Reply(i) ==
    /\ pc[i] \in {"returned", "rejected"}
    /\ pc' = [pc EXCEPT ![i] = "idle"]
    /\ call' = [call EXCEPT ![i] = Nothing]
    /\ posts' = [posts EXCEPT ![i] = <<>>]
    /\ settled' = [settled EXCEPT ![i] = Nothing]
    /\ result' = [result EXCEPT ![i] = Nothing]
    /\ UNCHANGED <<proc, exitCode>>

Next ==
    \/ Connect
    \/ ConnectFail
    \/ \E i \in Slots, name \in ToolNames : \E a \in Arguments(name) : CallTool(i, name, a)
    \/ \E i \in Slots : HttpResponse(i)
    \/ \E i \in Slots : NetworkError(i)
    \/ \E i \in Slots : Timeout(i)
    \/ \E i \in Slots : Reply(i)

Spec == Init /\ [][Next]_vars

\* The timer that `timeout: 30000` arms for a post is run by the event loop:
\* a post that stays unsettled does time out.  Nothing obliges the upstream
\* to answer, the transport to fail, or the client to call.
SpecLive == Spec /\ \A i \in Slots : WF_vars(Timeout(i))

(***************************************************************************)
(* Overlapping calls.  The handlers are async functions: while one awaits  *)
(* its post, the event loop starts and resumes others.  MaxConcurrent      *)
(* calls are in flight at once, each step of each interleaved freely with  *)
(* the steps of the others; the calls are drawn from a narrower set.       *)
(***************************************************************************)
MaxConcurrent == 2

ConcurrentSlots == 1 .. MaxConcurrent

ConcurrentCalls ==
    {[name |-> "get_all_mids", arguments |-> Empty],
     [name |-> "get_l2_snapshot", arguments |-> Empty],
     [name |-> "get_funding_rates", arguments |-> Empty],
     [name |-> "get_funding_rates", arguments |-> [coin |-> Str("BTC")]],
     [name |-> "get_recent_trades", arguments |-> [coin |-> Str("BTC")]],
     [name |-> "get_recent_trades", arguments |-> [coin |-> Str("BTC"), n |-> Num(50)]],
     [name |-> "get_candles",
      arguments |-> [coin |-> Str("BTC"), interval |-> Str("1h")]],
     [name |-> "get_candles",
      arguments |-> [coin |-> Str("BTC"), interval |-> Str("1h"),
                     start_time |-> Num(1700)]]}

InitConcurrent ==
    /\ proc = "starting"
    /\ exitCode = Nothing
    /\ pc = [i \in ConcurrentSlots |-> "idle"]
    /\ call = [i \in ConcurrentSlots |-> Nothing]
    /\ posts = [i \in ConcurrentSlots |-> <<>>]
    /\ settled = [i \in ConcurrentSlots |-> Nothing]
    /\ result = [i \in ConcurrentSlots |-> Nothing]

NextConcurrent ==
    \/ Connect
    \/ ConnectFail
    \/ \E i \in ConcurrentSlots, c \in ConcurrentCalls : CallTool(i, c.name, c.arguments)
    \/ \E i \in ConcurrentSlots : HttpResponse(i)
    \/ \E i \in ConcurrentSlots : NetworkError(i)
    \/ \E i \in ConcurrentSlots : Timeout(i)
    \/ \E i \in ConcurrentSlots : Reply(i)

SpecConcurrent == InitConcurrent /\ [][NextConcurrent]_vars

(***************************************************************************)
(* Properties.                                                             *)
(***************************************************************************)
Name(i) == call[i].name

Args(i) == call[i].arguments

\* The call in slot i carries the numeric argument k, greater than bound.
NumberAbove(i, k, bound) ==
    Has(Args(i), k) /\ Args(i)[k].t = "number" /\ Args(i)[k].v > bound

OverMax(i) ==
    \/ Name(i) = "get_recent_trades" /\ NumberAbove(i, "n", 1000)
    \/ Name(i) = "get_candles" /\ NumberAbove(i, "limit", 5000)

\* C1 as stated: a get_recent_trades call with n > 1000 (a get_candles call
\* with limit > 5000) is not rejected; it issues exactly one upstream request,
\* whose n is 1000 (whose limit is 5000).
C1_ClampNotReject ==
    \A i \in Slots :
        (pc[i] # "idle" /\ OverMax(i)) =>
            /\ pc[i] # "rejected"
            /\ Len(posts[i]) = 1
            /\ Name(i) = "get_recent_trades" => posts[i][1].data.n = Num(1000)
            /\ Name(i) = "get_candles" => posts[i][1].data.limit = Num(5000)

\* C1 as amended: a get_recent_trades call with n > 1000, and a get_candles
\* call with limit > 5000, is refused by the tool's schema: it ends as an
\* input error, no upstream request is issued and no handler result exists.
C1_OverMaxRejected ==
    \A i \in Slots :
        (pc[i] # "idle" /\ OverMax(i)) =>
            /\ pc[i] = "rejected"
            /\ posts[i] = <<>>
            /\ result[i] = Nothing

C1_Witness ==
    \E i \in Slots :
        /\ pc[i] = "rejected"
        /\ call[i] = [name |-> "get_recent_trades",
                      arguments |-> [coin |-> Str("BTC"), n |-> Num(5000)]]
        /\ posts[i] = <<>>

\* The call in slot i lacks a parameter its tool requires, or is a
\* get_candles call whose interval is not one of the six timeframes.
MissingRequired(i) ==
    \/ Name(i) = "get_l2_snapshot" /\ ~Has(Args(i), "coin")
    \/ Name(i) = "get_user_state" /\ ~Has(Args(i), "user_address")
    \/ Name(i) = "get_recent_trades" /\ ~Has(Args(i), "coin")
    \/ Name(i) = "get_candles" /\ (~Has(Args(i), "coin") \/ ~Has(Args(i), "interval"))

BadInterval(i) ==
    /\ Name(i) = "get_candles"
    /\ Has(Args(i), "interval")
    /\ Args(i).interval \notin {Str("1m"), Str("5m"), Str("15m"), Str("1h"), Str("4h"), Str("1d")}

\* C2: a call that lacks a required parameter, or a get_candles call with an
\* interval outside {1m,5m,15m,1h,4h,1d}, ends as an input error and issues no
\* upstream request.
C2_ValidationPrecedesNetwork ==
    \A i \in Slots :
        (pc[i] # "idle" /\ (MissingRequired(i) \/ BadInterval(i))) =>
            /\ pc[i] = "rejected"
            /\ posts[i] = <<>>
            /\ settled[i] = Nothing

C2_Witness ==
    \E i \in Slots :
        /\ pc[i] = "rejected"
        /\ call[i] = [name |-> "get_candles",
                      arguments |-> [coin |-> Str("BTC"), interval |-> Str("2h")]]
        /\ posts[i] = <<>>

Text(i) == result[i].content[1].text

Flagged(i) == Has(result[i], "isError") /\ result[i].isError = TRUE

\* The `error` property of the body of the response the post failed with,
\* "" when there is no response or no such property.
FailedBodyError(i) ==
    LET e == settled[i].error
    IN IF Has(e, "response") /\ Has(e.response.data.v, "error")
       THEN e.response.data.v.error.v
       ELSE ""

\* C3: when the post fails (no response, or a status that is not 2xx) the
\* handler returns a result with isError = true whose text is
\* "Error: Hyperliquid API error: " followed by the body's `error` property if
\* that is present and non-empty, and by the transport error's message
\* otherwise; the failure never leaves the handler as an exception.
C3_UpstreamFailureNormalised ==
    \A i \in Slots :
        (pc[i] = "returned" /\ ~settled[i].ok) =>
            /\ Flagged(i)
            /\ Len(result[i].content) = 1
            /\ Text(i) = "Error: Hyperliquid API error: "
                            \o (IF FailedBodyError(i) # "" THEN FailedBodyError(i)
                                ELSE settled[i].error.message)

C3_Witness ==
    \E i \in Slots :
        /\ pc[i] = "returned"
        /\ call[i] = [name |-> "get_l2_snapshot", arguments |-> [coin |-> Str("ZZZ")]]
        /\ settled[i].ok = FALSE
        /\ settled[i].error.response =
              [status |-> 500, data |-> Obj([error |-> Str("coin not found")])]
        /\ result[i] =
              [content |-> <<[type |-> "text",
                              text |-> "Error: Hyperliquid API error: coin not found"]>>,
               isError |-> TRUE]

\* The post in slot i resolved with a 2xx response whose body has an `error`
\* property.
EmbeddedError(i) ==
    /\ pc[i] = "returned"
    /\ settled[i].ok
    /\ Has(settled[i].response.data.v, "error")

\* C4 as stated: a 2xx response whose body carries an `error` property is
\* classified as an upstream error: the result is error-flagged (and carries
\* the upstream's error text).
C4_EmbeddedErrorFlagged ==
    \A i \in Slots : EmbeddedError(i) => Flagged(i)

\* C4 as amended: a 2xx response whose body carries an `error` property is
\* not classified as an error: the result is not error-flagged and its text is
\* the JSON serialisation of that body, error property included.
C4_EmbeddedErrorPassedThrough ==
    \A i \in Slots :
        EmbeddedError(i) =>
            /\ ~Has(result[i], "isError")
            /\ Text(i) = "{\n  \"error\": \""
                            \o settled[i].response.data.v.error.v \o "\"\n}"

C4_Witness ==
    \E i \in Slots :
        /\ pc[i] = "returned"
        /\ Name(i) = "get_all_mids"
        /\ settled[i] =
              [ok |-> TRUE,
               response |-> [status |-> 200,
                             data |-> Obj([error |-> Str("coin not found")])]]
        /\ result[i] =
              [content |-> <<[type |-> "text",
                              text |-> "{\n  \"error\": \"coin not found\"\n}"]>>]

\* C5: when the post resolves (a 2xx response) the result is not error-flagged
\* and its one content block is the text JSON.stringify(body, null, 2) of the
\* response body, whatever the tool and the body.
C5_SuccessVerbatim ==
    \A i \in Slots :
        (pc[i] = "returned" /\ settled[i].ok) =>
            /\ ~Has(result[i], "isError")
            /\ DOMAIN result[i] = {"content"}
            /\ Len(result[i].content) = 1
            /\ result[i].content[1].type = "text"
            /\ Text(i) = JSONstringify(settled[i].response.data)

C5_Witness ==
    \E i \in Slots :
        /\ pc[i] = "returned"
        /\ Name(i) = "get_user_state"
        /\ settled[i].ok
        /\ settled[i].response.data =
              Obj([type |-> Str("userState"), user |-> Str("0xabc")])
        /\ result[i] =
              [content |-> <<[type |-> "text",
                              text |-> "{\n  \"type\": \"userState\",\n  \"user\": \"0xabc\"\n}"]>>]

\* The request bodies handed to hyperliquidApi.post for the call in slot i.
Sent(i) == [k \in DOMAIN posts[i] |-> posts[i][k].data]

\* The call in slot i passed its schema: its handler has run.
Validated(i) == pc[i] \in {"awaiting", "returned"}

\* C6: a get_all_mids (get_meta) call with the empty arguments object issues
\* exactly one POST to /info whose body is {type: "allMids"} ({type: "meta"})
\* and has no other property.
C6_ParameterlessBody ==
    \A i \in Slots :
        (pc[i] # "idle" /\ Name(i) \in {"get_all_mids", "get_meta"} /\ Args(i) = Empty) =>
            /\ Len(posts[i]) = 1
            /\ posts[i][1].endpoint = "/info"
            /\ DOMAIN posts[i][1].data = {"type"}
            /\ posts[i][1].data.type =
                  (IF Name(i) = "get_all_mids" THEN Str("allMids") ELSE Str("meta"))

C6_Witness ==
    \E i \in Slots :
        /\ pc[i] = "awaiting"
        /\ call[i] = [name |-> "get_meta", arguments |-> Empty]
        /\ posts[i] = <<[endpoint |-> "/info", data |-> [type |-> Str("meta")]]>>

\* C7: the body of a get_funding_rates (get_open_interest) request never has a
\* `coin` that is null, undefined or ""; with coin omitted the body is just
\* {type: "fundingRate"} ({type: "openInterest"}), and with a non-empty coin
\* supplied it is {type, coin} with the supplied coin.
C7_OptionalCoin ==
    \A i \in Slots :
        (Validated(i) /\ Name(i) \in {"get_funding_rates", "get_open_interest"}) =>
            LET body == Sent(i)[1]
                type == IF Name(i) = "get_funding_rates" THEN Str("fundingRate")
                        ELSE Str("openInterest")
            IN /\ Len(posts[i]) = 1
               /\ body.type = type
               /\ Has(body, "coin") => (body.coin.t = "string" /\ body.coin.v # "")
               /\ ~Has(Args(i), "coin") => body = [type |-> type]
               /\ (Has(Args(i), "coin") /\ Args(i).coin.t = "string" /\ Args(i).coin.v # "")
                     => body = [type |-> type, coin |-> Args(i).coin]

C7_Witness ==
    \E i \in Slots :
        /\ pc[i] = "awaiting"
        /\ call[i] = [name |-> "get_funding_rates", arguments |-> [coin |-> Str("")]]
        /\ Sent(i) = <<[type |-> Str("fundingRate")]>>

\* C8: a get_recent_trades call with coin c and n in [1,1000] sends exactly
\* {type: "trades", coin: c, n: n}; with n omitted it sends n = 100.
C8_TradesBody ==
    \A i \in Slots :
        (Validated(i) /\ Name(i) = "get_recent_trades") =>
            /\ (Has(Args(i), "n") /\ Args(i).n.v >= 1 /\ Args(i).n.v <= 1000) =>
                  Sent(i) = <<[type |-> Str("trades"), coin |-> Args(i).coin,
                               n |-> Args(i).n]>>
            /\ ~Has(Args(i), "n") =>
                  Sent(i) = <<[type |-> Str("trades"), coin |-> Args(i).coin,
                               n |-> Num(100)]>>

\* The scenario of the claim against an upstream that echoes the request
\* body, and the default.
C8_Witness ==
    \E i \in Slots :
        /\ pc[i] = "returned"
        /\ call[i] = [name |-> "get_recent_trades",
                      arguments |-> [coin |-> Str("BTC"), n |-> Num(50)]]
        /\ Sent(i) = <<[type |-> Str("trades"), coin |-> Str("BTC"), n |-> Num(50)]>>
        /\ result[i] =
              [content |-> <<[type |-> "text",
                              text |-> "{\n  \"type\": \"trades\",\n  \"coin\": \"BTC\",\n  \"n\": 50\n}"]>>]

\* C9: every request ever handed to hyperliquidApi.post satisfies its tool's
\* declared constraints: a trades request has 1 <= n <= 1000, a candles
\* request has 1 <= limit <= 5000 and an interval in {1m,5m,15m,1h,4h,1d}.
C9_ForwardedWithinConstraints ==
    \A i \in Slots :
        \A k \in DOMAIN posts[i] :
            LET body == posts[i][k].data
            IN /\ body.type = Str("trades") =>
                     (body.n.t = "number" /\ body.n.v >= 1 /\ body.n.v <= 1000)
               /\ body.type = Str("candles") =>
                     /\ body.limit.t = "number"
                     /\ body.limit.v >= 1
                     /\ body.limit.v <= 5000
                     /\ body.interval.t = "string"
                     /\ body.interval.v \in {"1m", "5m", "15m", "1h", "4h", "1d"}

C9_Witness ==
    \E i \in Slots :
        /\ pc[i] = "awaiting"
        /\ call[i] = [name |-> "get_candles",
                      arguments |-> [coin |-> Str("BTC"), interval |-> Str("1h"),
                                     limit |-> Num(5000)]]
        /\ Sent(i) = <<[type |-> Str("candles"), coin |-> Str("BTC"),
                        interval |-> Str("1h"), limit |-> Num(5000)]>>

\* C10: a call that passes validation issues exactly one POST, never a second
\* one, and ends either with a success result (the post resolved) or with an
\* error-flagged result (the post failed); a failure is never answered with
\* data.
C10_SingleAttempt ==
    \A i \in Slots :
        /\ Len(posts[i]) <= 1
        /\ Validated(i) <=> Len(posts[i]) = 1
        /\ pc[i] = "awaiting" => (settled[i] = Nothing /\ result[i] = Nothing)
        /\ pc[i] = "returned" =>
              /\ settled[i] # Nothing
              /\ Has(result[i], "content")
              /\ settled[i].ok <=> ~Has(result[i], "isError")
              /\ ~settled[i].ok <=> Flagged(i)

C10_Witness ==
    \E i \in Slots :
        /\ pc[i] = "returned"
        /\ Name(i) = "get_recent_trades"
        /\ settled[i] = PostTimedOut
        /\ Len(posts[i]) = 1
        /\ result[i] =
              [content |-> <<[type |-> "text",
                              text |-> "Error: Hyperliquid API error: timeout of 30000ms exceeded"]>>,
               isError |-> TRUE]

\* Everything the model keeps about the call in slot i.
SlotState(i) == <<pc[i], call[i], posts[i], settled[i], result[i]>>

\* No step touches two calls: whatever a step does to one call, it leaves
\* every other call in flight as it was.
StepsOneCall ==
    \A i, j \in ConcurrentSlots :
        (i # j /\ SlotState(i)' # SlotState(i)) => SlotState(j)' = SlotState(j)

\* Two calls with the same tool name and arguments have issued the same
\* requests, and two calls whose posts settled alike have the same result.
SameInSameOut ==
    \A i, j \in ConcurrentSlots :
        /\ (Validated(i) /\ Validated(j) /\ call[i] = call[j]) => posts[i] = posts[j]
        /\ (pc[i] = "returned" /\ pc[j] = "returned" /\ settled[i] = settled[j])
              => result[i] = result[j]

\* C11: with calls overlapping in any order, the request body of a call
\* depends only on its own tool name and arguments and its result only on the
\* response to its own request: calls given the same name and arguments send
\* the same body, calls given the same response return the same result,
\* whatever else is or was in flight, and no call's step changes another call.
C11_InvocationIndependence == [](SameInSameOut) /\ [][StepsOneCall]_vars

\* Two get_candles calls overlap: the one with start_time = 1700 has failed,
\* the one without is still awaiting, and its body shows no startTime.
C11_Witness ==
    /\ pc[1] = "returned"
    /\ Args(1) = [coin |-> Str("BTC"), interval |-> Str("1h"), start_time |-> Num(1700)]
    /\ Flagged(1)
    /\ pc[2] = "awaiting"
    /\ Args(2) = [coin |-> Str("BTC"), interval |-> Str("1h")]
    /\ Sent(2) = <<[type |-> Str("candles"), coin |-> Str("BTC"),
                    interval |-> Str("1h"), limit |-> Num(500)]>>

\* A post that timed out is answered with the error-flagged timeout message.
TimedOutIsFailure ==
    \A i \in Slots :
        (pc[i] = "returned" /\ settled[i] = PostTimedOut) =>
            /\ Flagged(i)
            /\ Text(i) = "Error: Hyperliquid API error: timeout of 30000ms exceeded"

\* C12: every call eventually reaches a terminal outcome (refused, or
\* returned by its handler): a call awaiting its post does not stay pending
\* for ever, since if neither a response nor a transport failure comes the
\* timeout fires, and the timed-out call returns an error-flagged result.
C12_EventuallyTerminal ==
    /\ \A i \in Slots : (pc[i] # "idle") ~> (pc[i] \in {"returned", "rejected"})
    /\ \A i \in Slots : (pc[i] = "awaiting") ~> (pc[i] = "returned")
    /\ []TimedOutIsFailure

C12_Witness ==
    \E i \in Slots :
        /\ pc[i] = "returned"
        /\ call[i] = [name |-> "get_all_mids", arguments |-> Empty]
        /\ settled[i] = PostTimedOut
        /\ result[i] =
              [content |-> <<[type |-> "text",
                              text |-> "Error: Hyperliquid API error: timeout of 30000ms exceeded"]>>,
               isError |-> TRUE]

\* Slot i can take a new call.
Serve(i) == \E name \in ToolNames : \E a \in Arguments(name) : CallTool(i, name, a)

\* The call in slot i has failed: it was refused, or its post failed.
Failed(i) == pc[i] = "rejected" \/ (pc[i] = "returned" /\ Flagged(i))

\* While any call is being handled or has failed, the process runs; it has
\* exited only with status 1 and without ever having had a call to handle;
\* and while it runs, a free slot can take a call.
Survives ==
    /\ \A i \in Slots : pc[i] # "idle" => (proc = "running" /\ exitCode = Nothing)
    /\ proc = "exited" <=> exitCode = Num(1)
    /\ proc = "running" => \A i \in Slots : pc[i] = "idle" => ENABLED Serve(i)

\* C13: once the transport is connected no step of any call (a refusal, a
\* transport failure, a timeout, a non-2xx response) ends the process, which
\* goes on taking calls; the process ends only from its start, when
\* server.connect fails, and then with exit status 1.
C13_ProcessSurvival ==
    /\ []Survives
    /\ [][proc = "running" => proc' = "running"]_vars
    /\ [][proc' = "exited" => (proc = "exited" \/ (proc = "starting" /\ exitCode' = Num(1)))]_vars

C13_Witness ==
    \E i \in Slots :
        /\ proc = "running"
        /\ exitCode = Nothing
        /\ pc[i] = "returned"
        /\ call[i] = [name |-> "get_meta", arguments |-> Empty]
        /\ settled[i] = PostFailed("getaddrinfo ENOTFOUND api.hyperliquid.xyz")
        /\ Flagged(i)
        /\ ENABLED Reply(i)

\* C14: a get_candles request carries startTime equal to every numeric
\* start_time supplied and endTime equal to every numeric end_time supplied,
\* has no such property when the argument is omitted, and always carries
\* type candles, the caller's coin and interval, and limit (500 when omitted).
C14_TimeBoundsForwarded ==
    \A i \in Slots :
        (Validated(i) /\ Name(i) = "get_candles") =>
            LET body == Sent(i)[1]
            IN /\ Has(Args(i), "start_time") =>
                     (Has(body, "startTime") /\ body.startTime = Args(i).start_time)
               /\ ~Has(Args(i), "start_time") => ~Has(body, "startTime")
               /\ Has(Args(i), "end_time") =>
                     (Has(body, "endTime") /\ body.endTime = Args(i).end_time)
               /\ ~Has(Args(i), "end_time") => ~Has(body, "endTime")
               /\ body.type = Str("candles")
               /\ body.coin = Args(i).coin
               /\ body.interval = Args(i).interval
               /\ body.limit = (IF Has(Args(i), "limit") THEN Args(i).limit ELSE Num(500))

====
